---- MODULE Spec2Model ----
(***************************************************************************)
(* Retail inventory / order management: the order and payment services     *)
(* (src/src/services) over the record store reached through the DAOs       *)
(* (src/src/dao).  The store is four tables; every DAO call is one or two  *)
(* independent round trips, and a round trip can succeed ("ok"), return no *)
(* row ("none") or raise ("raise").  A failed round trip writes nothing.   *)
(* Under Spec each service call is one action; the round trips that fail   *)
(* during the call are an input of the action (its fault plan).  Under     *)
(* Interleaved several calls are in progress at once and each action is    *)
(* one round trip of one of them.                                          *)
(***************************************************************************)
EXTENDS Integers, Sequences, FiniteSets, TLC

VARIABLES products, orders, order_items, payments, last, nfaults, calls

vars == <<products, orders, order_items, payments, last, nfaults, calls>>

\* ------------------------------------------------------------------ bounds
MaxOrders == 1      \* orders created in one run
MaxLines == 2       \* lines of one create_order call
MaxQty == 2         \* largest quantity of a line
MaxStock == 3       \* largest initial stock of a product
MaxFaults == 2      \* service calls of one run during which a store call fails
MaxCalls == 2       \* calls in progress at once, their round trips interleaved

\* ------------------------------------------------------------------ data
ProductIds == {1, 2}                 \* ids of the rows of table products
ItemProductIds == {0, 1, 2, 3}       \* prod_id inputs: 0 is falsy, 3 names no row
CustomerIds == {1}                   \* ids of the rows of table customers
CustomerInputs == {1, 2}             \* customer_id inputs: 2 names no row
OrderInputs == 1..(MaxOrders + 1)    \* order_id inputs
PaymentInputs == 1..(MaxOrders + 1)  \* payment_id inputs
NoMethod == "None"                   \* Python None for payment_method
Price == [p \in ProductIds |-> p + 1] \* the catalogue's unit prices

valid_methods == {"Cash", "Card", "UPI"}
MethodInputs == {"Card", "UPI", "Cheque"}   \* payment_method inputs

Max(a, b) == IF a >= b THEN a ELSE b
Min(S) == CHOOSE x \in S : \A y \in S : x <= y

\* The store as one value.
Store == [products |-> products, orders |-> orders,
          order_items |-> order_items, payments |-> payments]

\* ------------------------------------------------------------ fault plans
\* Which round trips of one service call fail.
\*   read      the call's first read raises
\*   fetch     cancel_order: get_order_items_for_restoration raises (line 144)
\*   refetch   cancel_order: get_order_items_for_restoration raises (line 173)
\*   stock     index of the forward update_stock call that raises (0: none)
\*   write     the order write (insert, or update_order_status)
\*   item_none the order-item inserts that return no row
\*   item_raise index of the order-item insert that raises (0: none)
\*   pay       the payment write (insert, process, refund)
\*   undo1     the inline compensating update_stock calls that raise
\*   undo2     the except-handler compensating update_stock calls that raise
\*   revert    process_payment's compensating update_payment
NoFault == [read |-> FALSE, fetch |-> FALSE, refetch |-> FALSE, stock |-> 0,
            write |-> "ok", item_none |-> {}, item_raise |-> 0, pay |-> "ok",
            undo1 |-> {}, undo2 |-> {}, revert |-> "ok"]

Outcomes == {"ok", "none", "raise"}

\* ------------------------------------------------------------- product_dao
update_stock_unclamped(P, prod_id, delta) ==
    IF prod_id \notin DOMAIN P THEN P
    ELSE [P EXCEPT ![prod_id].stock = @ + delta]

\* update_stock: read the row, write max(0, stock + delta); no row, no write.
update_stock(P, prod_id, delta) ==
    IF prod_id \notin DOMAIN P THEN P
    ELSE [P EXCEPT ![prod_id].stock = Max(0, @ + delta)]

\* A loop "for item in lines: update_stock(item id, sign * item quantity)" run
\* over lines 1..k; the calls in skip raise and write nothing.  lines is a
\* sequence of <<product id, quantity>>.
RECURSIVE stock_loop(_, _, _, _, _)
stock_loop(P, lines, sign, k, skip) ==
    IF k = 0 THEN P
    ELSE LET Q == stock_loop(P, lines, sign, k - 1, skip)
         IN  IF k \in skip THEN Q
             ELSE update_stock(Q, lines[k][1], sign * lines[k][2])

\* What a service call did: the store it leaves, how it ended ("ok" or the
\* failure raised to the caller) and the status field of the record returned.
Result(S, outcome, ret) == [store |-> S, outcome |-> outcome, ret |-> ret]

\* --------------------------------------------------------------- order_dao
\* sum(price) over lines 1..k: the total with every quantity taken as 1
RECURSIVE line_total_ignoring_quantity(_, _)
line_total_ignoring_quantity(items, k) ==
    IF k = 0 THEN 0
    ELSE line_total_ignoring_quantity(items, k - 1) + items[k].price

\* sum(price * quantity) over lines 1..k
RECURSIVE line_total(_, _)
line_total(items, k) ==
    IF k = 0 THEN 0
    ELSE line_total(items, k - 1) + items[k].price * items[k].quantity

\* The order-item inserts of lines 1..k; an insert in none returns no row and
\* is skipped.
RECURSIVE insert_items(_, _, _, _, _)
insert_items(rows, order_id, items, k, none) ==
    IF k = 0 THEN rows
    ELSE LET R == insert_items(rows, order_id, items, k - 1, none)
         IN  IF k \in none THEN R
             ELSE Append(R, [order_id |-> order_id,
                             product_id |-> items[k].prod_id,
                             quantity |-> items[k].quantity,
                             price |-> items[k].price])

\* order_dao.create_order: insert the order row, then one row per item.
\* res: "ok", "none" (the order insert returned no row), "raise".
order_dao_create_order(S, customer_id, items, f) ==
    IF f.write # "ok" THEN [store |-> S, res |-> f.write, order_id |-> 0]
    ELSE LET id == Len(S.orders) + 1
             row == [customer_id |-> customer_id,
                     total_amount |-> line_total(items, Len(items)),
                     status |-> "PLACED"]
             n == IF f.item_raise = 0 THEN Len(items) ELSE f.item_raise - 1
         IN  [store |-> [S EXCEPT !.orders = Append(@, row),
                                  !.order_items =
                                      insert_items(@, id, items, n, f.item_none)],
              res |-> IF f.item_raise = 0 THEN "ok" ELSE "raise",
              order_id |-> id]

\* get_order_items_for_restoration: <<product_id, quantity>> of the order's rows
get_order_items_for_restoration(S, order_id) ==
    LET rows == SelectSeq(S.order_items, LAMBDA r : r.order_id = order_id)
    IN  [i \in 1..Len(rows) |-> <<rows[i].product_id, rows[i].quantity>>]

\* update_order_status writing a whole order payload, the total reset to 0
update_order_status_clearing_total(S, order_id, status) ==
    [S EXCEPT !.orders[order_id].status = status,
              !.orders[order_id].total_amount = 0]

update_order_status(S, order_id, status) ==
    [S EXCEPT !.orders[order_id].status = status]

\* ------------------------------------------------------------- payment_dao
create_payment(S, order_id, amount) ==
    [S EXCEPT !.payments = Append(@, [order_id |-> order_id, amount |-> amount,
                                      status |-> "PENDING",
                                      payment_method |-> NoMethod])]

\* get_payment_by_order_id: the id of the first payment of the order, 0 if none
get_payment_by_order_id(S, order_id) ==
    LET ids == {i \in 1..Len(S.payments) : S.payments[i].order_id = order_id}
    IN  IF ids = {} THEN 0 ELSE Min(ids)

\* update_payment writing only the status field
update_payment_status_only(S, payment_id, status, method) ==
    [S EXCEPT !.payments[payment_id].status = status]

update_payment(S, payment_id, status, method) ==
    [S EXCEPT !.payments[payment_id].status = status,
              !.payments[payment_id].payment_method = method]

payment_dao_process_payment(S, payment_id, payment_method) ==
    update_payment(S, payment_id, "PAID", payment_method)

payment_dao_refund_payment(S, payment_id) ==
    [S EXCEPT !.payments[payment_id].status = "REFUNDED"]

\* create_pending_payment inserting the payment row twice
create_pending_payment_twice(S, order_id, amount, f) ==
    IF f.pay = "ok"
    THEN [store |-> create_payment(create_payment(S, order_id, amount), order_id, amount),
          ok |-> TRUE]
    ELSE [store |-> S, ok |-> FALSE]

\* --------------------------------------------------------- payment_service
\* create_pending_payment: TRUE and the store with the PENDING payment, or
\* FALSE (PaymentError) when the insert returns no row or raises.
create_pending_payment(S, order_id, amount, f) ==
    IF f.pay = "ok" THEN [store |-> create_payment(S, order_id, amount), ok |-> TRUE]
    ELSE [store |-> S, ok |-> FALSE]

\* ----------------------------------------------------------- order_service
\* create_order lines 31-45: the failure one line raises, "ok" if none
line_error(P, item) ==
    IF item.prod_id = 0 THEN "ProductIdRequired"
    ELSE IF item.qty <= 0 THEN "QuantityNotPositive"
    ELSE IF item.prod_id \notin DOMAIN P THEN "ProductNotFound"
    ELSE IF P[item.prod_id].stock < item.qty THEN "InsufficientStock"
    ELSE "ok"

\* create_order lines 23-51: the validation failure raised, "ok" if none
validation_error(S, customer_id, items) ==
    IF customer_id \notin CustomerIds THEN "CustomerNotFound"
    ELSE LET bad == {i \in 1..Len(items) : line_error(S.products, items[i]) # "ok"}
         IN  IF bad = {} THEN "ok" ELSE line_error(S.products, items[Min(bad)])

ValidationFailures == {"CustomerNotFound", "ProductIdRequired",
                       "QuantityNotPositive", "ProductNotFound",
                       "InsufficientStock"}

\* create_order lines 47-51
validated_items(P, items) ==
    [i \in 1..Len(items) |-> [prod_id |-> items[i].prod_id,
                              quantity |-> items[i].qty,
                              price |-> P[items[i].prod_id].price]]

\* the stock loop moving one unit per line, whatever the line's quantity
item_deltas_one_each(V) == [i \in 1..Len(V) |-> <<V[i].prod_id, 1>>]

item_deltas(V) == [i \in 1..Len(V) |-> <<V[i].prod_id, V[i].quantity>>]

\* create_order lines 53-84: the try block and its except handler
place_order(S, customer_id, V, f) ==
    LET n == Len(V)
        D == item_deltas(V)
        \* lines 77-84: restore every validated item, swallowing failures
        failed(T) == Result([T EXCEPT !.products = stock_loop(@, D, 1, n, f.undo2)],
                            "OrderCreationFailed", "")
    IN  IF f.stock # 0
        THEN \* lines 55-56: a decrement raises
             failed([S EXCEPT !.products = stock_loop(@, D, -1, f.stock - 1, {})])
        ELSE LET S1 == [S EXCEPT !.products = stock_loop(@, D, -1, n, {})]
                 c == order_dao_create_order(S1, customer_id, V, f)
             IN  IF c.res = "raise" THEN failed(c.store)
                 ELSE IF c.res = "none"
                 THEN \* lines 60-64: restore, then raise inside the try block
                      LET m == IF f.undo1 = {} THEN n ELSE Min(f.undo1) - 1
                      IN  failed([S1 EXCEPT !.products = stock_loop(@, D, 1, m, {})])
                 ELSE \* lines 66-75: the payment's failure is not fatal
                      Result(create_pending_payment(c.store, c.order_id,
                                 c.store.orders[c.order_id].total_amount, f).store,
                             "ok", "PLACED")

\* create_order deducting each line's stock as soon as the line is validated
create_order_deduct_while_validating(S, customer_id, items, f) ==
    IF f.read THEN Result(S, "StoreError", "")
    ELSE LET e == validation_error(S, customer_id, items)
             bad == {i \in 1..Len(items) : line_error(S.products, items[i]) # "ok"}
             D == [i \in 1..Len(items) |-> <<items[i].prod_id, items[i].qty>>]
         IN  IF e = "CustomerNotFound" THEN Result(S, e, "")
             ELSE IF e # "ok"
             THEN Result([S EXCEPT !.products = stock_loop(@, D, -1, Min(bad) - 1, {})],
                         e, "")
             ELSE place_order(S, customer_id, validated_items(S.products, items), f)

\* create_order treating a failed payment insert as any other failure of the
\* try block: the except handler restores the stock and the call fails
create_order_payment_fatal(S, customer_id, items, f) ==
    IF f.read THEN Result(S, "StoreError", "")
    ELSE LET e == validation_error(S, customer_id, items)
             V == validated_items(S.products, items)
             r == place_order(S, customer_id, V, f)
         IN  IF e # "ok" THEN Result(S, e, "")
             ELSE IF r.outcome = "ok" /\ f.pay # "ok"
             THEN Result([r.store EXCEPT !.products =
                              stock_loop(@, item_deltas(V), 1, Len(V), {})],
                         "OrderCreationFailed", "")
             ELSE r

create_order(S, customer_id, items, f) ==
    IF f.read THEN Result(S, "StoreError", "")
    ELSE LET e == validation_error(S, customer_id, items)
         IN  IF e # "ok" THEN Result(S, e, "")
             ELSE place_order(S, customer_id, validated_items(S.products, items), f)

\* --------------------------------------------------------- payment_service
\* refund_payment without the check of lines 115-117
refund_payment_no_refunded_check(S, payment_id, f) ==
    IF f.read THEN Result(S, "StoreError", "")
    ELSE IF payment_id \notin 1..Len(S.payments)
    THEN Result(S, "PaymentNotFound", "")
    ELSE IF f.pay # "ok" THEN Result(S, "RefundFailed", "")
    ELSE Result(payment_dao_refund_payment(S, payment_id), "ok", "REFUNDED")

\* refund_payment lines 111-127
refund_payment(S, payment_id, f) ==
    IF f.read THEN Result(S, "StoreError", "")
    ELSE IF payment_id \notin 1..Len(S.payments)
    THEN Result(S, "PaymentNotFound", "")
    ELSE IF S.payments[payment_id].status = "REFUNDED"
    THEN Result(S, "AlreadyRefunded", "")
    ELSE IF f.pay # "ok" THEN Result(S, "RefundFailed", "")
    ELSE Result(payment_dao_refund_payment(S, payment_id), "ok", "REFUNDED")

\* refund_payment_by_order lines 139-143
refund_payment_by_order(S, order_id, f) ==
    IF f.read THEN Result(S, "StoreError", "")
    ELSE LET payment_id == get_payment_by_order_id(S, order_id)
         IN  IF payment_id = 0 THEN Result(S, "PaymentNotFound", "")
             ELSE refund_payment(S, payment_id, f)

payment_error_no_paid_check(S, payment_id, payment_method) ==
    IF payment_method \notin valid_methods THEN "InvalidMethod"
    ELSE IF payment_id \notin 1..Len(S.payments) THEN "PaymentNotFound"
    ELSE IF S.payments[payment_id].status = "REFUNDED" THEN "PaymentRefunded"
    ELSE "ok"

\* process_payment lines 45-60: the failure raised before the try block
payment_error(S, payment_id, payment_method) ==
    IF payment_method \notin valid_methods THEN "InvalidMethod"
    ELSE IF payment_id \notin 1..Len(S.payments) THEN "PaymentNotFound"
    ELSE IF S.payments[payment_id].status = "PAID" THEN "AlreadyProcessed"
    ELSE IF S.payments[payment_id].status = "REFUNDED" THEN "PaymentRefunded"
    ELSE "ok"

\* process_payment whose compensation also puts the order's items back into
\* stock, as cancel_order's does
pay_and_complete_restocking(S, payment_id, payment_method, f) ==
    IF f.pay # "ok" THEN Result(S, "PaymentProcessingFailed", "")
    ELSE LET S1 == payment_dao_process_payment(S, payment_id, payment_method)
             order_id == S.payments[payment_id].order_id
             D == get_order_items_for_restoration(S, order_id)
         IN  IF f.write = "raise"
             THEN Result(S1, "PaymentProcessingFailed", "")
             ELSE IF f.write = "none"
             THEN Result([(IF f.revert = "ok"
                           THEN update_payment(S1, payment_id, "PENDING", NoMethod)
                           ELSE S1)
                          EXCEPT !.products = stock_loop(@, D, 1, Len(D), {})],
                         "PaymentProcessingFailed", "")
             ELSE Result(update_order_status(S1, order_id, "COMPLETED"), "ok", "PAID")

\* process_payment lines 62-79: mark PAID, then complete the order
pay_and_complete(S, payment_id, payment_method, f) ==
    IF f.pay # "ok" THEN Result(S, "PaymentProcessingFailed", "")
    ELSE LET S1 == payment_dao_process_payment(S, payment_id, payment_method)
             order_id == S.payments[payment_id].order_id
         IN  IF f.write = "raise"
             THEN \* line 78: wrapped and raised, the payment stays as written
                  Result(S1, "PaymentProcessingFailed", "")
             ELSE IF f.write = "none"
             THEN \* lines 71-74: revert the payment, then raise
                  Result(IF f.revert = "ok"
                         THEN update_payment(S1, payment_id, "PENDING", NoMethod)
                         ELSE S1,
                         "PaymentProcessingFailed", "")
             ELSE Result(update_order_status(S1, order_id, "COMPLETED"), "ok", "PAID")

process_payment(S, payment_id, payment_method, f) ==
    IF payment_method \notin valid_methods THEN Result(S, "InvalidMethod", "")
    ELSE IF f.read THEN Result(S, "StoreError", "")
    ELSE LET e == payment_error(S, payment_id, payment_method)
         IN  IF e # "ok" THEN Result(S, e, "")
             ELSE pay_and_complete(S, payment_id, payment_method, f)

\* process_payment_by_order lines 92-96
process_payment_by_order(S, order_id, payment_method, f) ==
    IF f.read THEN Result(S, "StoreError", "")
    ELSE LET payment_id == get_payment_by_order_id(S, order_id)
         IN  IF payment_id = 0 THEN Result(S, "PaymentNotFound", "")
             ELSE process_payment(S, payment_id, payment_method, f)

\* ----------------------------------------------------------- order_service
cancel_error_only_cancelled(S, order_id) ==
    IF order_id \notin 1..Len(S.orders) THEN "OrderNotFound"
    ELSE IF S.orders[order_id].status = "CANCELLED" THEN "AlreadyCancelled"
    ELSE "ok"

\* cancel_order lines 131-140: the failure raised before the try block
cancel_error(S, order_id) ==
    IF order_id \notin 1..Len(S.orders) THEN "OrderNotFound"
    ELSE IF S.orders[order_id].status = "CANCELLED" THEN "AlreadyCancelled"
    ELSE IF S.orders[order_id].status # "PLACED" THEN "NotPlaced"
    ELSE "ok"

\* cancel_order lines 142-179: the try block and its except handler
restore_and_cancel(S, order_id, f) ==
    LET D == get_order_items_for_restoration(S, order_id)
        n == Len(D)
        \* lines 171-179: fetch the items again and deduct every one
        failed(T) ==
            IF f.refetch THEN Result(T, "StoreError", "")
            ELSE Result([T EXCEPT !.products = stock_loop(@, D, -1, n, f.undo2)],
                        "CancellationFailed", "")
    IN  IF f.fetch THEN failed(S)
        ELSE IF f.stock # 0
        THEN failed([S EXCEPT !.products = stock_loop(@, D, 1, f.stock - 1, {})])
        ELSE LET S1 == [S EXCEPT !.products = stock_loop(@, D, 1, n, {})]
             IN  IF f.write = "raise" THEN failed(S1)
                 ELSE IF f.write = "none"
                 THEN \* lines 152-159: deduct again, then raise inside the try
                      failed([S1 EXCEPT !.products =
                                  stock_loop(@, D, -1, n, f.undo1)])
                 ELSE \* lines 161-169: the refund's failure is not fatal
                      Result(refund_payment_by_order(
                                 update_order_status(S1, order_id, "CANCELLED"),
                                 order_id, f).store,
                             "ok", "CANCELLED")

\* cancel_order that sets the status and refunds but restores no stock
cancel_order_without_restore(S, order_id, f) ==
    IF f.read THEN Result(S, "StoreError", "")
    ELSE LET e == cancel_error(S, order_id)
         IN  IF e # "ok" THEN Result(S, e, "")
             ELSE IF f # NoFault THEN restore_and_cancel(S, order_id, f)
             ELSE Result(refund_payment_by_order(
                             update_order_status(S, order_id, "CANCELLED"),
                             order_id, f).store,
                         "ok", "CANCELLED")

\* cancel_order treating a failed refund as any other failure of the try
\* block: the except handler deducts the stock again and the call fails
cancel_order_refund_fatal(S, order_id, f) ==
    IF f.read THEN Result(S, "StoreError", "")
    ELSE LET e == cancel_error(S, order_id)
             r == restore_and_cancel(S, order_id, f)
             D == get_order_items_for_restoration(S, order_id)
             T == update_order_status(S, order_id, "CANCELLED")
         IN  IF e # "ok" THEN Result(S, e, "")
             ELSE IF r.outcome = "ok"
                     /\ refund_payment_by_order(T, order_id, f).outcome # "ok"
             THEN Result([r.store EXCEPT !.products =
                              stock_loop(@, D, -1, Len(D), {})],
                         "CancellationFailed", "")
             ELSE r

cancel_order(S, order_id, f) ==
    IF f.read THEN Result(S, "StoreError", "")
    ELSE LET e == cancel_error(S, order_id)
         IN  IF e # "ok" THEN Result(S, e, "")
             ELSE restore_and_cancel(S, order_id, f)

completion_error_only_completed(S, order_id) ==
    IF order_id \notin 1..Len(S.orders) THEN "OrderNotFound"
    ELSE IF S.orders[order_id].status = "COMPLETED" THEN "AlreadyCompleted"
    ELSE "ok"

\* mark_order_completed lines 195-204: the failure raised by the status check
completion_error(S, order_id) ==
    IF order_id \notin 1..Len(S.orders) THEN "OrderNotFound"
    ELSE IF S.orders[order_id].status = "COMPLETED" THEN "AlreadyCompleted"
    ELSE IF S.orders[order_id].status = "CANCELLED" THEN "OrderCancelled"
    ELSE "ok"

\* mark_order_completed settling the payment in cash when no method is given
complete_order_settling_payment(S, order_id, payment_method, f) ==
    IF payment_method # NoMethod
    THEN LET r == process_payment_by_order(S, order_id, payment_method, f)
         IN  IF r.outcome # "ok" THEN Result(r.store, "PaymentProcessingFailed", "")
             ELSE Result(r.store, "ok", S.orders[order_id].status)
    ELSE IF f.write = "raise" THEN Result(S, "StoreError", "")
    ELSE IF f.write = "none" THEN Result(S, "StatusUpdateFailed", "")
    ELSE LET T == update_order_status(S, order_id, "COMPLETED")
             payment_id == get_payment_by_order_id(S, order_id)
         IN  Result(IF payment_id = 0 THEN T
                    ELSE payment_dao_process_payment(T, payment_id, "Cash"),
                    "ok", "COMPLETED")

\* mark_order_completed lines 206-220
complete_order(S, order_id, payment_method, f) ==
    IF payment_method # NoMethod
    THEN LET r == process_payment_by_order(S, order_id, payment_method, f)
         IN  IF r.outcome # "ok" THEN Result(r.store, "PaymentProcessingFailed", "")
             ELSE \* line 220 returns the order read at line 195
                  Result(r.store, "ok", S.orders[order_id].status)
    ELSE IF f.write = "raise" THEN Result(S, "StoreError", "")
    ELSE IF f.write = "none" THEN Result(S, "StatusUpdateFailed", "")
    ELSE Result(update_order_status(S, order_id, "COMPLETED"), "ok", "COMPLETED")

mark_order_completed(S, order_id, payment_method, f) ==
    IF f.read THEN Result(S, "StoreError", "")
    ELSE LET e == completion_error(S, order_id)
         IN  IF e # "ok" THEN Result(S, e, "")
             ELSE complete_order(S, order_id, payment_method, f)

\* process_order_payment returning the order as it was before the payment
process_order_payment_stale(S, order_id, payment_method, f) ==
    LET r == process_payment_by_order(S, order_id, payment_method, f)
    IN  IF r.outcome # "ok" THEN Result(r.store, "PaymentProcessingFailed", "")
        ELSE Result(r.store, "ok", S.orders[order_id].status)

\* process_order_payment lines 236-248
process_order_payment(S, order_id, payment_method, f) ==
    LET r == process_payment_by_order(S, order_id, payment_method, f)
    IN  IF r.outcome # "ok" THEN Result(r.store, "PaymentProcessingFailed", "")
        ELSE Result(r.store, "ok", r.store.orders[order_id].status)

\* ------------------------------------------------------------ fault plans
ReadFault == [NoFault EXCEPT !.read = TRUE]

\* How an except handler's compensation can go: the second fetch raises, or
\* the update_stock calls in undo2 raise.
Tails(n) == {[refetch |-> TRUE, undo2 |-> {}]}
            \cup {[refetch |-> FALSE, undo2 |-> u] : u \in SUBSET (1..n)}

\* The fault plans of create_order for n validated lines.
CreateFaults(n) ==
    {NoFault, ReadFault}
    \cup {[NoFault EXCEPT !.stock = k, !.undo2 = u] :
              k \in 1..n, u \in SUBSET (1..n)}
    \cup {[NoFault EXCEPT !.write = "raise", !.undo2 = u] : u \in SUBSET (1..n)}
    \cup {[NoFault EXCEPT !.write = "none", !.undo1 = a, !.undo2 = u] :
              a \in {{}} \cup {{k} : k \in 1..n}, u \in SUBSET (1..n)}
    \cup UNION {{[NoFault EXCEPT !.item_raise = k, !.item_none = m, !.undo2 = u] :
                    m \in SUBSET (1..(k - 1)), u \in SUBSET (1..n)} : k \in 1..n}
    \cup {[NoFault EXCEPT !.item_none = m, !.pay = p] :
              m \in SUBSET (1..n), p \in Outcomes}

\* The fault plans of cancel_order for an order of n item rows.
CancelFaults(n) ==
    {NoFault, ReadFault}
    \cup {[NoFault EXCEPT !.fetch = TRUE, !.refetch = t.refetch, !.undo2 = t.undo2] :
              t \in Tails(n)}
    \cup {[NoFault EXCEPT !.stock = k, !.refetch = t.refetch, !.undo2 = t.undo2] :
              k \in 1..n, t \in Tails(n)}
    \cup {[NoFault EXCEPT !.write = "raise", !.refetch = t.refetch, !.undo2 = t.undo2] :
              t \in Tails(n)}
    \cup {[NoFault EXCEPT !.write = "none", !.undo1 = a,
                          !.refetch = t.refetch, !.undo2 = t.undo2] :
              a \in SUBSET (1..n), t \in Tails(n)}
    \cup {[NoFault EXCEPT !.pay = p] : p \in Outcomes}

\* The fault plans of process_payment.
PayFaults ==
    {NoFault, ReadFault}
    \cup {[NoFault EXCEPT !.pay = p] : p \in Outcomes}
    \cup {[NoFault EXCEPT !.write = "raise"]}
    \cup {[NoFault EXCEPT !.write = "none", !.revert = v] : v \in Outcomes}

\* The fault plans of refund_payment.
RefundFaults == {NoFault, ReadFault} \cup {[NoFault EXCEPT !.pay = p] : p \in Outcomes}

\* The fault plans of mark_order_completed without a payment method.
StatusFaults == {NoFault, ReadFault} \cup {[NoFault EXCEPT !.write = w] : w \in Outcomes}

\* ------------------------------------------------------------------ inputs
Lines == [prod_id : ItemProductIds, qty : 0..MaxQty]
ItemLists == UNION {[1..n -> Lines] : n \in 0..MaxLines}

NoArgs == [customer_id |-> 0, items |-> <<>>, order_id |-> 0, payment_id |-> 0,
           payment_method |-> NoMethod]

\* ------------------------------------------------------------------- state
\* last is the call in progress at the caller: its arguments, fault plan and
\* result, with the store as it was before the call (pre).  Between calls it
\* is Idle; prior then holds the stock before the create_order call that has
\* just returned successfully with no store failure, <<>> otherwise, and the
\* next call carries it on.
Idle(prior) == [op |-> "idle", args |-> NoArgs, fault |-> NoFault, outcome |-> "",
                ret |-> "", pre |-> Store, prior |-> prior]

Init ==
    /\ \E stock \in [ProductIds -> 1..MaxStock] :
         products = [p \in ProductIds |-> [stock |-> stock[p], price |-> Price[p]]]
    /\ orders = <<>>
    /\ order_items = <<>>
    /\ payments = <<>>
    /\ nfaults = 0
    /\ last = Idle(<<>>)
    /\ calls = <<>>

\* One service call op(args) under fault plan f with result r.
Call(op, args, f, r) ==
    /\ f = NoFault \/ nfaults < MaxFaults
    /\ products' = r.store.products
    /\ orders' = r.store.orders
    /\ order_items' = r.store.order_items
    /\ payments' = r.store.payments
    /\ nfaults' = IF f = NoFault THEN nfaults ELSE nfaults + 1
    /\ last' = [op |-> op, args |-> args, fault |-> f, outcome |-> r.outcome,
                ret |-> r.ret, pre |-> Store, prior |-> last.prior]
    /\ UNCHANGED calls

\* The call returns to its caller, which prints the result and drops it.
Return ==
    /\ last.op # "idle"
    /\ last' = Idle(IF last.op = "create_order" /\ last.outcome = "ok"
                       /\ last.fault = NoFault
                    THEN <<last.pre.products>> ELSE <<>>)
    /\ UNCHANGED <<products, orders, order_items, payments, nfaults, calls>>

CreateOrder ==
    /\ last.op = "idle"
    /\ Len(orders) < MaxOrders
    /\ \E customer_id \in CustomerInputs, items \in ItemLists :
         \E f \in IF validation_error(Store, customer_id, items) = "ok"
                  THEN CreateFaults(Len(items)) ELSE {NoFault} :
            Call("create_order",
                 [NoArgs EXCEPT !.customer_id = customer_id, !.items = items],
                 f, create_order(Store, customer_id, items, f))

CancelOrder ==
    /\ last.op = "idle"
    /\ \E order_id \in OrderInputs :
         \E f \in IF cancel_error(Store, order_id) = "ok"
                  THEN CancelFaults(Len(get_order_items_for_restoration(Store, order_id)))
                  ELSE {NoFault} :
            Call("cancel_order", [NoArgs EXCEPT !.order_id = order_id],
                 f, cancel_order(Store, order_id, f))

MarkOrderCompleted ==
    /\ last.op = "idle"
    /\ \E order_id \in OrderInputs, payment_method \in MethodInputs \cup {NoMethod} :
         \E f \in IF completion_error(Store, order_id) # "ok" THEN {NoFault}
                  ELSE IF payment_method = NoMethod THEN StatusFaults
                  ELSE IF payment_error(Store, get_payment_by_order_id(Store, order_id),
                                        payment_method) = "ok"
                  THEN PayFaults ELSE {NoFault} :
            Call("mark_order_completed",
                 [NoArgs EXCEPT !.order_id = order_id, !.payment_method = payment_method],
                 f, mark_order_completed(Store, order_id, payment_method, f))

ProcessOrderPayment ==
    /\ last.op = "idle"
    /\ \E order_id \in OrderInputs, payment_method \in MethodInputs :
         \E f \in IF payment_error(Store, get_payment_by_order_id(Store, order_id),
                                   payment_method) = "ok"
                  THEN PayFaults ELSE {NoFault} :
            Call("process_order_payment",
                 [NoArgs EXCEPT !.order_id = order_id, !.payment_method = payment_method],
                 f, process_order_payment(Store, order_id, payment_method, f))

ProcessPayment ==
    /\ last.op = "idle"
    /\ \E payment_id \in PaymentInputs, payment_method \in MethodInputs :
         \E f \in IF payment_error(Store, payment_id, payment_method) = "ok"
                  THEN PayFaults
                  ELSE {NoFault} :
            Call("process_payment",
                 [NoArgs EXCEPT !.payment_id = payment_id, !.payment_method = payment_method],
                 f, process_payment(Store, payment_id, payment_method, f))

ProcessPaymentByOrder ==
    /\ last.op = "idle"
    /\ \E order_id \in OrderInputs, payment_method \in MethodInputs :
         \E f \in IF payment_error(Store, get_payment_by_order_id(Store, order_id),
                                   payment_method) = "ok"
                  THEN PayFaults ELSE {NoFault} :
            Call("process_payment_by_order",
                 [NoArgs EXCEPT !.order_id = order_id, !.payment_method = payment_method],
                 f, process_payment_by_order(Store, order_id, payment_method, f))

RefundPayment ==
    /\ last.op = "idle"
    /\ \E payment_id \in PaymentInputs :
         \E f \in IF payment_id \in 1..Len(payments)
                     /\ payments[payment_id].status # "REFUNDED"
                  THEN RefundFaults ELSE {NoFault} :
            Call("refund_payment", [NoArgs EXCEPT !.payment_id = payment_id],
                 f, refund_payment(Store, payment_id, f))

RefundPaymentByOrder ==
    /\ last.op = "idle"
    /\ \E order_id \in OrderInputs :
         \E f \in IF get_payment_by_order_id(Store, order_id) # 0
                     /\ payments[get_payment_by_order_id(Store, order_id)].status # "REFUNDED"
                  THEN RefundFaults ELSE {NoFault} :
            Call("refund_payment_by_order", [NoArgs EXCEPT !.order_id = order_id],
                 f, refund_payment_by_order(Store, order_id, f))

Next ==
    \/ CreateOrder
    \/ CancelOrder
    \/ MarkOrderCompleted
    \/ ProcessOrderPayment
    \/ ProcessPayment
    \/ ProcessPaymentByOrder
    \/ RefundPayment
    \/ RefundPaymentByOrder
    \/ Return

Spec == Init /\ [][Next]_vars

\* ------------------------------------------------------- interleaved calls
\* calls holds the calls in progress, each with its position (pc) and the
\* locals of its code: the loop index k, the validated items (create_order),
\* the item rows fetched (cancel_order), the stock read by update_stock
\* (current), the payment and the order it works on, the order status read by
\* mark_order_completed, and whether a store call of it returned no row.
Deltas == (-MaxQty..MaxQty) \ {0}

NoCallArgs == [customer_id |-> 0, items |-> <<>>, order_id |-> 0, payment_id |-> 0,
               payment_method |-> NoMethod, prod_id |-> 0, delta |-> 0]

\* The order in the store when the calls start.
FirstOrder == <<[prod_id |-> 1, qty |-> 1], [prod_id |-> 2, qty |-> 1]>>

\* The first round trip of each operation.
first_pc(op) ==
    CASE op = "update_stock" -> "read_stock"
      [] op = "create_order" -> "read_customer"
      [] op \in {"cancel_order", "mark_order_completed"} -> "read_order"
      [] op \in {"process_order_payment", "process_payment_by_order"} -> "find_payment"
      [] op = "process_payment" -> "read_payment"
      [] op = "refund_payment" -> "read_refund"
      [] op = "refund_payment_by_order" -> "find_refund"

NewCall(op, args) ==
    [op |-> op, args |-> args, pc |-> first_pc(op), k |-> 1, validated |-> <<>>,
     rows |-> <<>>, current |-> 0, payment_id |-> args.payment_id, order_id |-> 0,
     status |-> "", fault |-> FALSE, outcome |-> "", ret |-> ""]

CallInputs ==
    {NewCall("update_stock", [NoCallArgs EXCEPT !.prod_id = 1, !.delta = d]) :
        d \in Deltas}
    \cup {NewCall("create_order",
                  [NoCallArgs EXCEPT !.customer_id = 1,
                                     !.items = <<[prod_id |-> 1, qty |-> q]>>]) :
            q \in 1..MaxQty}
    \cup {NewCall("mark_order_completed",
                  [NoCallArgs EXCEPT !.order_id = 1, !.payment_method = m]) :
            m \in {"Card", NoMethod}}
    \cup {NewCall("cancel_order", [NoCallArgs EXCEPT !.order_id = 1]),
          NewCall("process_order_payment",
                  [NoCallArgs EXCEPT !.order_id = 1, !.payment_method = "UPI"]),
          NewCall("process_payment_by_order",
                  [NoCallArgs EXCEPT !.order_id = 1, !.payment_method = "Cash"]),
          NewCall("process_payment",
                  [NoCallArgs EXCEPT !.payment_id = 1, !.payment_method = "Card"]),
          NewCall("refund_payment", [NoCallArgs EXCEPT !.payment_id = 1]),
          NewCall("refund_payment_by_order", [NoCallArgs EXCEPT !.order_id = 1])}

\* The store holds one PLACED order with its PENDING payment; the calls have
\* been issued and none has made a round trip yet.
InterleavedInit ==
    /\ \E stock \in [ProductIds -> 1..MaxStock] :
         LET S0 == [products |-> [p \in ProductIds |->
                                     [stock |-> stock[p], price |-> Price[p]]],
                    orders |-> <<>>, order_items |-> <<>>, payments |-> <<>>]
             S1 == create_order(S0, 1, FirstOrder, NoFault).store
         IN  /\ products = S1.products
             /\ orders = S1.orders
             /\ order_items = S1.order_items
             /\ payments = S1.payments
    /\ nfaults = 0
    /\ last = Idle(<<>>)
    /\ calls \in [1..MaxCalls -> CallInputs]

\* The call ends: it returns ret or raises outcome.
Done(c, outcome, ret) == [c EXCEPT !.pc = "done", !.outcome = outcome, !.ret = ret]

\* The failure a payment step raises to the caller of the call: the order
\* service wraps it (order_service.py:211-212, 247-248), best-effort callers
\* drop it (order_service.py:165-167).
Fail(c, e) ==
    IF c.op \in {"mark_order_completed", "process_order_payment"}
    THEN Done(c, "PaymentProcessingFailed", "")
    ELSE IF c.op = "cancel_order" THEN Done(c, "ok", "CANCELLED")
    ELSE Done(c, e, "")

\* A round trip of call i that reads: only the call's locals change.
Reads(i, c) ==
    /\ calls' = [calls EXCEPT ![i] = c]
    /\ UNCHANGED <<products, orders, order_items, payments, last, nfaults>>

\* A round trip of call i that writes: the store becomes S.
Writes(i, c, S) ==
    /\ calls' = [calls EXCEPT ![i] = c]
    /\ products' = S.products
    /\ orders' = S.orders
    /\ order_items' = S.order_items
    /\ payments' = S.payments
    /\ UNCHANGED <<last, nfaults>>

\* The update_stock calls of the loop the call is in: <<prod_id, delta>>.
stock_lines(c) ==
    IF c.op = "update_stock" THEN <<<<c.args.prod_id, c.args.delta>>>>
    ELSE IF c.op = "create_order"
    THEN [j \in 1..Len(c.validated) |->
             <<c.validated[j].prod_id, -c.validated[j].quantity>>]
    ELSE c.rows

\* After an update_stock call of the loop: the next one, or what follows the loop.
after_stock(c) ==
    IF c.k < Len(stock_lines(c)) THEN [c EXCEPT !.k = @ + 1, !.pc = "read_stock"]
    ELSE IF c.op = "update_stock" THEN Done(c, "ok", "")
    ELSE IF c.op = "create_order" THEN [c EXCEPT !.pc = "insert_order"]
    ELSE [c EXCEPT !.pc = "set_status"]

\* update_stock as a write of the stock recomputed from the row as it is now
write_stock_rereading(P, prod_id, current, delta) ==
    [P EXCEPT ![prod_id].stock = Max(0, @ + delta)]

\* update_stock lines 53-54: write max(0, the stock read at line 49 + delta)
write_stock(P, prod_id, current, delta) ==
    [P EXCEPT ![prod_id].stock = Max(0, current + delta)]

\* update_stock line 49: read the product
ReadStock(i) ==
    /\ calls[i].pc = "read_stock"
    /\ LET c == calls[i]
           prod_id == stock_lines(c)[c.k][1]
       IN  IF prod_id \notin DOMAIN products THEN Reads(i, after_stock(c))
           ELSE Reads(i, [c EXCEPT !.current = products[prod_id].stock,
                                   !.pc = "write_stock"])

\* update_stock lines 53-54: write the new stock
WriteStock(i) ==
    /\ calls[i].pc = "write_stock"
    /\ LET c == calls[i]
           line == stock_lines(c)[c.k]
       IN  Writes(i, after_stock(c),
                  [Store EXCEPT !.products = write_stock(@, line[1], c.current, line[2])])

\* create_order lines 24-26
ReadCustomer(i) ==
    /\ calls[i].pc = "read_customer"
    /\ LET c == calls[i]
       IN  IF c.args.customer_id \notin CustomerIds
           THEN Reads(i, Done(c, "CustomerNotFound", ""))
           ELSE IF c.args.items = <<>> THEN Reads(i, [c EXCEPT !.pc = "insert_order"])
           ELSE Reads(i, [c EXCEPT !.pc = "validate"])

\* create_order lines 30-51: one line of the validation loop
ValidateLine(i) ==
    /\ calls[i].pc = "validate"
    /\ LET c == calls[i]
           item == c.args.items[c.k]
           e == line_error(products, item)
           V == Append(c.validated, [prod_id |-> item.prod_id, quantity |-> item.qty,
                                     price |-> products[item.prod_id].price])
       IN  IF e # "ok" THEN Reads(i, Done(c, e, ""))
           ELSE IF c.k < Len(c.args.items)
           THEN Reads(i, [c EXCEPT !.validated = V, !.k = @ + 1])
           ELSE Reads(i, [c EXCEPT !.validated = V, !.k = 1, !.pc = "read_stock"])

\* order_dao.create_order lines 12-25: insert the order row
InsertOrder(i) ==
    /\ calls[i].pc = "insert_order"
    /\ LET c == calls[i]
           row == [customer_id |-> c.args.customer_id,
                   total_amount |-> line_total(c.validated, Len(c.validated)),
                   status |-> "PLACED"]
       IN  Writes(i, [c EXCEPT !.order_id = Len(orders) + 1, !.k = 1,
                               !.pc = IF c.validated = <<>> THEN "insert_payment"
                                      ELSE "insert_item"],
                  [Store EXCEPT !.orders = Append(@, row)])

\* order_dao.create_order lines 29-38: insert one order item row
InsertItem(i) ==
    /\ calls[i].pc = "insert_item"
    /\ LET c == calls[i]
       IN  Writes(i, IF c.k < Len(c.validated) THEN [c EXCEPT !.k = @ + 1]
                     ELSE [c EXCEPT !.pc = "insert_payment"],
                  [Store EXCEPT !.order_items =
                       insert_items(@, c.order_id, c.validated, c.k, 1..(c.k - 1))])

\* create_order lines 67-75: insert the PENDING payment, return the order
InsertPayment(i) ==
    /\ calls[i].pc = "insert_payment"
    /\ LET c == calls[i]
       IN  Writes(i, Done(c, "ok", "PLACED"),
                  create_payment(Store, c.order_id,
                                 line_total(c.validated, Len(c.validated))))

\* cancel_order lines 131-140, mark_order_completed lines 195-204: read the
\* order and check its status
ReadOrder(i) ==
    /\ calls[i].pc = "read_order"
    /\ LET c == calls[i]
           e == IF c.op = "cancel_order" THEN cancel_error(Store, c.args.order_id)
                ELSE completion_error(Store, c.args.order_id)
       IN  IF e # "ok" THEN Reads(i, Done(c, e, ""))
           ELSE IF c.op = "cancel_order" THEN Reads(i, [c EXCEPT !.pc = "fetch_items"])
           ELSE Reads(i, [c EXCEPT !.status = orders[c.args.order_id].status,
                                   !.pc = IF c.args.payment_method # NoMethod
                                          THEN "find_payment" ELSE "set_status"])

\* cancel_order line 144: fetch the order's item rows
FetchItems(i) ==
    /\ calls[i].pc = "fetch_items"
    /\ LET c == calls[i]
           rows == get_order_items_for_restoration(Store, c.args.order_id)
       IN  Reads(i, [c EXCEPT !.rows = rows, !.k = 1,
                              !.pc = IF rows = <<>> THEN "set_status"
                                     ELSE "read_stock"])

\* cancel_order line 151 (CANCELLED), mark_order_completed lines 215-218
\* (COMPLETED): update the order's status
SetStatus(i) ==
    /\ calls[i].pc = "set_status"
    /\ LET c == calls[i]
       IN  IF c.op = "cancel_order"
           THEN Writes(i, [c EXCEPT !.pc = "find_refund"],
                       update_order_status(Store, c.args.order_id, "CANCELLED"))
           ELSE Writes(i, Done(c, "ok", "COMPLETED"),
                       update_order_status(Store, c.args.order_id, "COMPLETED"))

\* process_payment_by_order lines 92-96: find the order's payment
FindPayment(i) ==
    /\ calls[i].pc = "find_payment"
    /\ LET c == calls[i]
           payment_id == get_payment_by_order_id(Store, c.args.order_id)
       IN  IF payment_id = 0 THEN Reads(i, Fail(c, "PaymentNotFound"))
           ELSE Reads(i, [c EXCEPT !.payment_id = payment_id, !.pc = "read_payment"])

\* process_payment lines 45-60: read the payment and check its status
ReadPayment(i) ==
    /\ calls[i].pc = "read_payment"
    /\ LET c == calls[i]
           e == payment_error(Store, c.payment_id, c.args.payment_method)
       IN  IF e # "ok" THEN Reads(i, Fail(c, e))
           ELSE Reads(i, [c EXCEPT !.order_id = payments[c.payment_id].order_id,
                                   !.pc = "write_paid"])

\* process_payment line 64: mark the payment PAID
WritePaid(i) ==
    /\ calls[i].pc = "write_paid"
    /\ LET c == calls[i]
       IN  Writes(i, [c EXCEPT !.pc = "complete"],
                  payment_dao_process_payment(Store, c.payment_id,
                                              c.args.payment_method))

\* process_payment lines 69-76: set the order COMPLETED; when the update
\* returns no record, the payment is to be reverted
CompleteOrder(i) ==
    /\ calls[i].pc = "complete"
    /\ LET c == calls[i]
       IN  \/ Writes(i, IF c.op = "process_order_payment" THEN [c EXCEPT !.pc = "reread"]
                        ELSE IF c.op = "mark_order_completed"
                        THEN Done(c, "ok", c.status)
                        ELSE Done(c, "ok", "PAID"),
                     update_order_status(Store, c.order_id, "COMPLETED"))
           \/ Reads(i, [c EXCEPT !.fault = TRUE, !.pc = "revert"])

\* process_payment lines 73-74: revert the payment, then raise
RevertPayment(i) ==
    /\ calls[i].pc = "revert"
    /\ LET c == calls[i]
       IN  Writes(i, Fail(c, "PaymentProcessingFailed"),
                  update_payment(Store, c.payment_id, "PENDING", NoMethod))

\* process_order_payment lines 241-245: read the order again and return it
RereadOrder(i) ==
    /\ calls[i].pc = "reread"
    /\ LET c == calls[i]
       IN  Reads(i, Done(c, "ok", orders[c.args.order_id].status))

\* refund_payment_by_order lines 139-143: find the order's payment
FindRefund(i) ==
    /\ calls[i].pc = "find_refund"
    /\ LET c == calls[i]
           payment_id == get_payment_by_order_id(Store, c.args.order_id)
       IN  IF payment_id = 0 THEN Reads(i, Fail(c, "PaymentNotFound"))
           ELSE Reads(i, [c EXCEPT !.payment_id = payment_id, !.pc = "read_refund"])

\* refund_payment lines 111-117: read the payment and check its status
ReadRefund(i) ==
    /\ calls[i].pc = "read_refund"
    /\ LET c == calls[i]
       IN  IF c.payment_id \notin 1..Len(payments)
           THEN Reads(i, Fail(c, "PaymentNotFound"))
           ELSE IF payments[c.payment_id].status = "REFUNDED"
           THEN Reads(i, Fail(c, "AlreadyRefunded"))
           ELSE Reads(i, [c EXCEPT !.pc = "write_refund"])

\* refund_payment lines 120-124: mark the payment REFUNDED
WriteRefund(i) ==
    /\ calls[i].pc = "write_refund"
    /\ LET c == calls[i]
       IN  Writes(i, IF c.op = "cancel_order" THEN Done(c, "ok", "CANCELLED")
                     ELSE Done(c, "ok", "REFUNDED"),
                  payment_dao_refund_payment(Store, c.payment_id))

InterleavedNext ==
    \E i \in 1..MaxCalls :
        \/ ReadStock(i)
        \/ WriteStock(i)
        \/ ReadCustomer(i)
        \/ ValidateLine(i)
        \/ InsertOrder(i)
        \/ InsertItem(i)
        \/ InsertPayment(i)
        \/ ReadOrder(i)
        \/ FetchItems(i)
        \/ SetStatus(i)
        \/ FindPayment(i)
        \/ ReadPayment(i)
        \/ WritePaid(i)
        \/ CompleteOrder(i)
        \/ RevertPayment(i)
        \/ RereadOrder(i)
        \/ FindRefund(i)
        \/ ReadRefund(i)
        \/ WriteRefund(i)

Interleaved == InterleavedInit /\ [][InterleavedNext]_vars

\* ------------------------------------------------------------------ claims
NoStoreFailure == last.fault = NoFault

\* The quantity lines 1..k of an item list order of product p.
RECURSIVE ordered_qty(_, _, _)
ordered_qty(items, p, k) ==
    IF k = 0 THEN 0
    ELSE ordered_qty(items, p, k - 1) + (IF items[k].prod_id = p THEN items[k].qty ELSE 0)

\* sum(price * quantity) over the stored item rows 1..k of an order
RECURSIVE rows_total(_, _, _)
rows_total(rows, order_id, k) ==
    IF k = 0 THEN 0
    ELSE rows_total(rows, order_id, k - 1)
         + (IF rows[k].order_id = order_id THEN rows[k].price * rows[k].quantity ELSE 0)

RowsOf(order_id) == SelectSeq(order_items, LAMBDA r : r.order_id = order_id)

\* C1: a create_order that succeeds, followed at once by a cancel_order of that
\* order that succeeds, no store call failing in either, leaves every product's
\* stock at its value before the create_order.
C1_CreateThenCancelRestoresStock ==
    (/\ last.op = "cancel_order" /\ last.outcome = "ok" /\ NoStoreFailure
     /\ last.prior # <<>>
     /\ last.args.order_id = Len(last.pre.orders))
    => \A p \in ProductIds : products[p].stock = last.prior[1][p].stock

\* C2: after a create_order that succeeds with no store failure, every
\* product's stock is its stock before the call minus the quantities of all
\* lines naming it, the order row exists and it has one item row per line.
C2_CreateDecrementsByOrderedQuantities ==
    (last.op = "create_order" /\ last.outcome = "ok" /\ NoStoreFailure)
    => /\ \A p \in ProductIds :
            products[p].stock = last.pre.products[p].stock
                                - ordered_qty(last.args.items, p, Len(last.args.items))
       /\ Len(orders) = Len(last.pre.orders) + 1
       /\ Len(RowsOf(Len(orders))) = Len(last.args.items)

\* The inputs create_order must reject: no such customer, or a line that names
\* no product, has a non-positive quantity or asks for more than the stock.
C3_Invalid ==
    \/ last.args.customer_id \notin CustomerIds
    \/ \E i \in 1..Len(last.args.items) :
          LET item == last.args.items[i]
          IN  \/ item.prod_id \notin ProductIds
              \/ item.qty <= 0
              \/ item.qty > last.pre.products[item.prod_id].stock

\* C3: a create_order whose input fails validation, on any line, fails with the
\* validation failure and leaves the store as it was: no stock changes and no
\* order, order item or payment is created.
C3_ValidationFailsBeforeMutation ==
    (last.op = "create_order" /\ C3_Invalid)
    => /\ last.outcome \in ValidationFailures
       /\ Store = last.pre

\* C3 witness: the second line asks for more than the stock, the first is valid.
C3_Witness ==
    /\ last.op = "create_order"
    /\ last.outcome = "InsufficientStock"
    /\ Len(last.args.items) = 2
    /\ line_error(last.pre.products, last.args.items[1]) = "ok"
    /\ last.args.items[2].prod_id # last.args.items[1].prod_id

\* C4: a create_order whose order insert returns no row, every stock update
\* succeeding, fails with OrderCreationFailed and leaves every product's stock
\* at its value before the call.
C4_FailedInsertRestoresStock ==
    (/\ last.op = "create_order" /\ ~C3_Invalid
     /\ last.fault = [NoFault EXCEPT !.write = "none"])
    => /\ last.outcome = "OrderCreationFailed"
       /\ products = last.pre.products

\* C5: a cancel_order of a PLACED order whose status update returns no row,
\* every stock update succeeding, fails with CancellationFailed, leaves the
\* order PLACED and every product's stock at its value before the call.
C5_FailedCancelRestoresStock ==
    (/\ last.op = "cancel_order"
     /\ last.args.order_id \in 1..Len(last.pre.orders)
     /\ last.pre.orders[last.args.order_id].status = "PLACED"
     /\ last.fault = [NoFault EXCEPT !.write = "none"])
    => /\ last.outcome = "CancellationFailed"
       /\ orders[last.args.order_id].status = "PLACED"
       /\ products = last.pre.products

\* C6: a process_payment that set the payment PAID and whose order-status
\* update then fails, by returning no row or by raising, fails with
\* PaymentProcessingFailed, leaves the payment PENDING with no payment method
\* and the order's status as it was.
C6_FailedCompletionRevertsPayment ==
    (/\ last.op = "process_payment"
     /\ last.args.payment_method \in valid_methods
     /\ last.args.payment_id \in 1..Len(last.pre.payments)
     /\ last.pre.payments[last.args.payment_id].status = "PENDING"
     /\ last.fault \in {[NoFault EXCEPT !.write = "none"],
                        [NoFault EXCEPT !.write = "raise"]})
    => /\ last.outcome = "PaymentProcessingFailed"
       /\ payments[last.args.payment_id].status = "PENDING"
       /\ payments[last.args.payment_id].payment_method = NoMethod
       /\ orders = last.pre.orders

\* C7: process_payment with an unrecognized method, a missing payment or a
\* payment that is PAID or REFUNDED fails and leaves the store as it was.
C7_RejectedPaymentChangesNothing ==
    (/\ last.op = "process_payment"
     /\ \/ last.args.payment_method \notin valid_methods
        \/ last.args.payment_id \notin 1..Len(last.pre.payments)
        \/ last.pre.payments[last.args.payment_id].status \in {"PAID", "REFUNDED"})
    => /\ last.outcome # "ok"
       /\ Store = last.pre

\* C7 witness: a PAID payment is processed again, with another valid method.
C7_Witness ==
    /\ last.op = "process_payment"
    /\ last.args.payment_id \in 1..Len(last.pre.payments)
    /\ last.pre.payments[last.args.payment_id].status = "PAID"
    /\ last.args.payment_method \in valid_methods
    /\ last.args.payment_method # last.pre.payments[last.args.payment_id].payment_method
    /\ last.outcome = "AlreadyProcessed"

\* C8: cancel_order of an order that is CANCELLED or COMPLETED fails and leaves
\* the store as it was: stock, the order's status and its payment.
C8_CancelOfClosedOrderIsNoOp ==
    (/\ last.op = "cancel_order"
     /\ last.args.order_id \in 1..Len(last.pre.orders)
     /\ last.pre.orders[last.args.order_id].status \in {"CANCELLED", "COMPLETED"})
    => /\ last.outcome # "ok"
       /\ Store = last.pre

\* C8 witness: a COMPLETED order with item rows and a PAID payment is cancelled.
C8_Witness ==
    /\ last.op = "cancel_order"
    /\ last.args.order_id \in 1..Len(last.pre.orders)
    /\ last.pre.orders[last.args.order_id].status = "COMPLETED"
    /\ Len(RowsOf(last.args.order_id)) > 0
    /\ \E i \in 1..Len(payments) :
          payments[i].order_id = last.args.order_id /\ payments[i].status = "PAID"
    /\ last.outcome = "NotPlaced"

\* C9: mark_order_completed of an order that is COMPLETED or CANCELLED fails,
\* with or without a payment method, and leaves the store as it was.
C9_CompleteOfClosedOrderIsNoOp ==
    (/\ last.op = "mark_order_completed"
     /\ last.args.order_id \in 1..Len(last.pre.orders)
     /\ last.pre.orders[last.args.order_id].status \in {"COMPLETED", "CANCELLED"})
    => /\ last.outcome # "ok"
       /\ Store = last.pre

\* C9 witness: a CANCELLED order whose payment is still PENDING (its refund
\* failed) is completed with a valid payment method.
C9_Witness ==
    /\ last.op = "mark_order_completed"
    /\ last.args.order_id \in 1..Len(last.pre.orders)
    /\ last.pre.orders[last.args.order_id].status = "CANCELLED"
    /\ last.args.payment_method \in valid_methods
    /\ \E i \in 1..Len(payments) :
          payments[i].order_id = last.args.order_id /\ payments[i].status = "PENDING"
    /\ last.outcome = "OrderCancelled"

\* C10: for every order in the store, price * quantity summed over its stored
\* item rows is its total_amount.
C10_ItemRowsSumToTotal ==
    \A order_id \in 1..Len(orders) :
        rows_total(order_items, order_id, Len(order_items))
            = orders[order_id].total_amount

\* The ids of the payments of an order.
PaymentsOf(order_id) == {i \in 1..Len(payments) : payments[i].order_id = order_id}

\* sum(price * qty) over lines 1..k of an item list, at the prices of P
RECURSIVE priced_total(_, _, _)
priced_total(P, items, k) ==
    IF k = 0 THEN 0
    ELSE priced_total(P, items, k - 1) + P[items[k].prod_id].price * items[k].qty

\* The quantity the stored item rows 1..k of an order hold of product p.
RECURSIVE rows_qty(_, _, _, _)
rows_qty(rows, order_id, p, k) ==
    IF k = 0 THEN 0
    ELSE rows_qty(rows, order_id, p, k - 1)
         + (IF rows[k].order_id = order_id /\ rows[k].product_id = p
            THEN rows[k].quantity ELSE 0)

\* C11: after a create_order that succeeds with no store failure, the new
\* order is PLACED, its total_amount is the sum over its lines of the product's
\* price at validation times the quantity, and it has exactly one payment,
\* which is PENDING, of that amount and without a payment method.
C11_CreatedOrderIsPlacedWithPendingPayment ==
    (last.op = "create_order" /\ last.outcome = "ok" /\ NoStoreFailure)
    => LET order_id == Len(orders)
       IN  /\ Len(orders) = Len(last.pre.orders) + 1
           /\ orders[order_id].status = "PLACED"
           /\ last.ret = "PLACED"
           /\ orders[order_id].total_amount
                  = priced_total(last.pre.products, last.args.items,
                                 Len(last.args.items))
           /\ \E i \in 1..Len(payments) :
                 /\ PaymentsOf(order_id) = {i}
                 /\ payments[i] = [order_id |-> order_id,
                                   amount |-> orders[order_id].total_amount,
                                   status |-> "PENDING",
                                   payment_method |-> NoMethod]

\* C11 witness: an order of two products, one of them in quantity 2.
C11_Witness ==
    /\ last.op = "create_order" /\ last.outcome = "ok" /\ NoStoreFailure
    /\ Len(last.args.items) = 2
    /\ last.args.items[1].prod_id # last.args.items[2].prod_id
    /\ last.args.items[1].qty = 2
    /\ Len(payments) = Len(last.pre.payments) + 1

\* The payment get_payment_by_order_id finds for the call's order before the
\* call, 0 if none.
PriorPayment == get_payment_by_order_id(last.pre, last.args.order_id)

\* The call names an order that was PLACED before the call.
OrderWasPlaced ==
    /\ last.args.order_id \in 1..Len(last.pre.orders)
    /\ last.pre.orders[last.args.order_id].status = "PLACED"

\* C12: process_order_payment with a valid method on a PLACED order that has a
\* PENDING payment, no store call failing, succeeds, leaves the payment PAID
\* with that method and the order COMPLETED, and returns the order with status
\* COMPLETED.
C12_OrderPaymentPaysAndCompletes ==
    (/\ last.op = "process_order_payment" /\ NoStoreFailure
     /\ last.args.payment_method \in valid_methods
     /\ OrderWasPlaced
     /\ PriorPayment # 0
     /\ last.pre.payments[PriorPayment].status = "PENDING")
    => /\ last.outcome = "ok"
       /\ payments[PriorPayment].status = "PAID"
       /\ payments[PriorPayment].payment_method = last.args.payment_method
       /\ orders[last.args.order_id].status = "COMPLETED"
       /\ last.ret = "COMPLETED"

\* C12 witness: a PLACED order with a PENDING payment is paid by UPI.
C12_Witness ==
    /\ last.op = "process_order_payment" /\ NoStoreFailure
    /\ last.args.payment_method = "UPI"
    /\ OrderWasPlaced
    /\ PriorPayment # 0
    /\ last.pre.payments[PriorPayment].status = "PENDING"
    /\ last.outcome = "ok"

\* Every product's stock is its stock before the call plus the quantities of
\* the item rows of the call's order.
StockRestored ==
    \A p \in ProductIds :
        products[p].stock = last.pre.products[p].stock
                            + rows_qty(order_items, last.args.order_id, p,
                                       Len(order_items))

\* C13: cancel_order of a PLACED order with no store failure succeeds, adds to
\* each item row's product the row's quantity, sets the order CANCELLED and
\* moves the order's payment, if PENDING, to REFUNDED.
C13_CancelRestoresStockAndRefunds ==
    (last.op = "cancel_order" /\ NoStoreFailure /\ OrderWasPlaced)
    => /\ last.outcome = "ok"
       /\ StockRestored
       /\ orders[last.args.order_id].status = "CANCELLED"
       /\ \A i \in 1..Len(last.pre.payments) :
             (/\ last.pre.payments[i].order_id = last.args.order_id
              /\ last.pre.payments[i].status = "PENDING")
             => payments[i].status = "REFUNDED"

\* C13 witness: a PLACED order with rows of two products and a PENDING payment
\* is cancelled.
C13_Witness ==
    /\ last.op = "cancel_order" /\ NoStoreFailure /\ OrderWasPlaced
    /\ last.outcome = "ok"
    /\ \A p \in ProductIds :
          rows_qty(order_items, last.args.order_id, p, Len(order_items)) > 0
    /\ PriorPayment # 0
    /\ last.pre.payments[PriorPayment].status = "PENDING"

\* C14: a create_order whose pending-payment insert returns no row or raises,
\* every other store call succeeding, still succeeds: the order is PLACED, no
\* payment exists for it and the stock stays decremented.
C14_FailedPaymentInsertKeepsOrder ==
    (/\ last.op = "create_order" /\ ~C3_Invalid
     /\ last.fault \in {[NoFault EXCEPT !.pay = "none"],
                        [NoFault EXCEPT !.pay = "raise"]})
    => /\ last.outcome = "ok"
       /\ last.ret = "PLACED"
       /\ Len(orders) = Len(last.pre.orders) + 1
       /\ orders[Len(orders)].status = "PLACED"
       /\ PaymentsOf(Len(orders)) = {}
       /\ payments = last.pre.payments
       /\ \A p \in ProductIds :
             products[p].stock
                 = Max(0, last.pre.products[p].stock
                          - ordered_qty(last.args.items, p, Len(last.args.items)))

\* C14 witness: the payment insert of a two-line order raises.
C14_Witness ==
    /\ last.op = "create_order" /\ ~C3_Invalid
    /\ last.fault = [NoFault EXCEPT !.pay = "raise"]
    /\ Len(last.args.items) = 2
    /\ last.outcome = "ok"
    /\ products # last.pre.products

\* C15: a cancel_order of a PLACED order whose refund fails (the order has no
\* payment, the payment is REFUNDED, or the refund's store update fails), every
\* other store call succeeding, still succeeds: the order is CANCELLED, the
\* stock stays restored and the payments are unchanged.
C15_FailedRefundKeepsCancellation ==
    (/\ last.op = "cancel_order" /\ OrderWasPlaced
     /\ last.fault \in {NoFault, [NoFault EXCEPT !.pay = "none"],
                        [NoFault EXCEPT !.pay = "raise"]}
     /\ \/ PriorPayment = 0
        \/ last.pre.payments[PriorPayment].status = "REFUNDED"
        \/ last.fault.pay # "ok")
    => /\ last.outcome = "ok"
       /\ last.ret = "CANCELLED"
       /\ orders[last.args.order_id].status = "CANCELLED"
       /\ StockRestored
       /\ payments = last.pre.payments

\* C15 witness: the refund's store update returns no row while the order has
\* item rows and a PENDING payment.
C15_Witness ==
    /\ last.op = "cancel_order" /\ OrderWasPlaced
    /\ last.fault = [NoFault EXCEPT !.pay = "none"]
    /\ PriorPayment # 0
    /\ last.pre.payments[PriorPayment].status = "PENDING"
    /\ Len(RowsOf(last.args.order_id)) > 0
    /\ last.outcome = "ok"

C17_PaidPaymentHasCompletedOrder ==
    last.op = "idle"
    => \A i \in 1..Len(payments) :
          payments[i].status = "PAID"
          => orders[payments[i].order_id].status = "COMPLETED"

\* The payment a refund call names: refund_payment's payment_id, or the payment
\* refund_payment_by_order finds for its order_id.
RefundTarget ==
    IF last.op = "refund_payment" THEN last.args.payment_id ELSE PriorPayment

\* C18: refund_payment and refund_payment_by_order fail on a REFUNDED payment
\* and leave it unchanged; on a PENDING or PAID payment, no store call failing,
\* they set its status to REFUNDED and change nothing else of it; in every case
\* the orders, the item rows and the stock are unchanged.
C18_RefundTouchesOnlyThePayment ==
    (last.op \in {"refund_payment", "refund_payment_by_order"})
    => /\ orders = last.pre.orders
       /\ order_items = last.pre.order_items
       /\ products = last.pre.products
       /\ RefundTarget \in 1..Len(last.pre.payments)
          => /\ last.pre.payments[RefundTarget].status = "REFUNDED"
                => (last.outcome # "ok" /\ payments = last.pre.payments)
             /\ (/\ last.pre.payments[RefundTarget].status \in {"PENDING", "PAID"}
                 /\ NoStoreFailure)
                => /\ last.outcome = "ok"
                   /\ payments = [last.pre.payments
                                    EXCEPT ![RefundTarget].status = "REFUNDED"]

\* C18 witness: the PAID payment of a COMPLETED order is refunded.
C18_Witness ==
    /\ last.op = "refund_payment_by_order"
    /\ PriorPayment # 0
    /\ last.pre.payments[PriorPayment].status = "PAID"
    /\ orders[last.args.order_id].status = "COMPLETED"
    /\ payments[PriorPayment].status = "REFUNDED"
    /\ last.outcome = "ok"

C20_CompleteWithoutMethodLeavesPayment ==
    (/\ last.op = "mark_order_completed" /\ NoStoreFailure
     /\ last.args.payment_method = NoMethod
     /\ OrderWasPlaced)
    => /\ last.outcome = "ok"
       /\ last.ret = "COMPLETED"
       /\ orders[last.args.order_id].status = "COMPLETED"
       /\ payments = last.pre.payments
       /\ products = last.pre.products
       /\ order_items = last.pre.order_items

\* C20 witness: the order is COMPLETED while its payment is still PENDING.
C20_Witness ==
    /\ last.op = "mark_order_completed" /\ NoStoreFailure
    /\ last.args.payment_method = NoMethod
    /\ OrderWasPlaced
    /\ orders[last.args.order_id].status = "COMPLETED"
    /\ PriorPayment # 0
    /\ payments[PriorPayment].status = "PENDING"

\* C22: whenever no call is in progress, a PENDING payment has no payment
\* method and a PAID payment has one of Cash, Card, UPI.
C22_MethodMatchesStatus ==
    last.op = "idle"
    => \A i \in 1..Len(payments) :
          /\ payments[i].status = "PENDING" => payments[i].payment_method = NoMethod
          /\ payments[i].status = "PAID" => payments[i].payment_method \in valid_methods

\* C22 witness: between calls, a payment that was paid while the completion of
\* its order failed: it is PAID by UPI and the order is still PLACED.
C22_Witness ==
    /\ last.op = "idle"
    /\ \E i \in 1..Len(payments) :
          /\ payments[i].status = "PAID"
          /\ payments[i].payment_method = "UPI"
          /\ orders[payments[i].order_id].status = "PLACED"

\* The calls that work on an order or a payment that exists already.
LaterCalls == {"cancel_order", "mark_order_completed", "process_order_payment",
               "process_payment", "process_payment_by_order", "refund_payment",
               "refund_payment_by_order"}

\* C23: cancel_order, mark_order_completed, process_order_payment,
\* process_payment and refund_payment, succeeding or failing, change no order's
\* total_amount, no order item row and no payment's amount or order.
C23_AmountsAreFrozen ==
    last.op \in LaterCalls
    => /\ Len(orders) = Len(last.pre.orders)
       /\ \A order_id \in 1..Len(orders) :
             /\ orders[order_id].total_amount
                    = last.pre.orders[order_id].total_amount
             /\ orders[order_id].customer_id
                    = last.pre.orders[order_id].customer_id
       /\ order_items = last.pre.order_items
       /\ Len(payments) = Len(last.pre.payments)
       /\ \A i \in 1..Len(payments) :
             /\ payments[i].amount = last.pre.payments[i].amount
             /\ payments[i].order_id = last.pre.payments[i].order_id

\* C23 witness: an order with two item rows and a total above 0 is paid and
\* completed.
C23_Witness ==
    /\ last.op = "process_order_payment" /\ last.outcome = "ok"
    /\ Len(RowsOf(last.args.order_id)) = 2
    /\ orders[last.args.order_id].total_amount > 0
    /\ orders[last.args.order_id].status # last.pre.orders[last.args.order_id].status

\* C24: when a step of the compensating pass of create_order or cancel_order
\* fails, the caller still receives the call's own failure: order creation
\* failed, cancellation failed.
C24_CompensationFailureIsSwallowed ==
    /\ (last.op = "create_order" /\ last.fault.undo2 # {})
       => last.outcome = "OrderCreationFailed"
    /\ (last.op = "cancel_order" /\ (last.fault.refetch \/ last.fault.undo2 # {}))
       => last.outcome = "CancellationFailed"

\* C25: mark_order_completed with a valid payment method on a PLACED order with
\* a PENDING payment, no store call failing, returns the order with status
\* COMPLETED, its status in the store after the call.
C25_CompleteWithMethodReturnsUpdatedOrder ==
    (/\ last.op = "mark_order_completed" /\ NoStoreFailure
     /\ last.args.payment_method \in valid_methods
     /\ OrderWasPlaced
     /\ PriorPayment # 0
     /\ last.pre.payments[PriorPayment].status = "PENDING")
    => /\ last.outcome = "ok"
       /\ last.ret = "COMPLETED"
       /\ last.ret = orders[last.args.order_id].status

\* C29: an order that is CANCELLED before a call is CANCELLED after it.
C29_CancelledIsTerminal ==
    \A order_id \in 1..Len(last.pre.orders) :
        last.pre.orders[order_id].status = "CANCELLED"
        => orders[order_id].status = "CANCELLED"

\* Every call has returned or raised.
AllDone == \A i \in 1..MaxCalls : calls[i].pc = "done"

\* The store when the interleaved calls started.
Started == last.pre

\* Every call is an update_stock of the same product, all of them read the
\* same stock and none of their writes is clamped at zero.
UpdateStockRace ==
    /\ AllDone
    /\ \A i \in 1..MaxCalls :
          /\ calls[i].op = "update_stock"
          /\ calls[i].args.prod_id = calls[1].args.prod_id
          /\ calls[i].current = calls[1].current
          /\ calls[i].current + calls[i].args.delta >= 0

\* C21: update_stock is not atomic: when interleaved update_stock calls on one
\* product have all read the same stock, none clamped at zero, the stock they
\* leave is that stock plus the delta of one of them: the other update is lost.
C21_InterleavedUpdateIsLost ==
    UpdateStockRace
    => \E i \in 1..MaxCalls :
          products[calls[1].args.prod_id].stock
              = calls[1].current + calls[i].args.delta

\* C21 witness: two update_stock calls, of -1 and of +2, leave the stock at the
\* initial stock - 1 instead of the initial stock + 1.
C21_Witness ==
    /\ UpdateStockRace
    /\ calls[1].args.delta = -1
    /\ calls[2].args.delta = 2
    /\ calls[1].current = Started.products[1].stock
    /\ products[1].stock = Started.products[1].stock - 1

\* The quantity the create_order calls 1..n order of product p.
RECURSIVE calls_qty(_, _)
calls_qty(p, n) ==
    IF n = 0 THEN 0
    ELSE calls_qty(p, n - 1)
         + ordered_qty(calls[n].args.items, p, Len(calls[n].args.items))

\* C26: of interleaved cancel_order calls on the same PLACED order at most one
\* succeeds, and the stock of each item row's product ends at its stock before
\* the calls plus the row's quantity.
C26_OrderIsCancelledOnce ==
    (/\ AllDone
     /\ \A i \in 1..MaxCalls :
           calls[i].op = "cancel_order" /\ calls[i].args.order_id = 1)
    => /\ Cardinality({i \in 1..MaxCalls : calls[i].outcome = "ok"}) <= 1
       /\ \A p \in ProductIds :
             products[p].stock = Started.products[p].stock
                                 + rows_qty(order_items, 1, p, Len(order_items))

\* C27: when interleaved create_order calls naming the same product all
\* succeed, the product's stock ends at its stock before the calls minus the
\* quantities the calls ordered.
C27_InterleavedCreatesDecrementBySum ==
    (/\ AllDone
     /\ \A i \in 1..MaxCalls :
           calls[i].op = "create_order" /\ calls[i].outcome = "ok")
    => \A p \in ProductIds :
          products[p].stock = Started.products[p].stock - calls_qty(p, MaxCalls)

\* C28: of a cancel_order call interleaved with a process_order_payment or
\* mark_order_completed call on the same PLACED order, no store call failing,
\* at most one succeeds: the order does not end COMPLETED with its stock
\* restored, nor CANCELLED with its payment PAID.
C28_CancelExcludesCompletion ==
    (/\ AllDone
     /\ calls[1].op = "cancel_order"
     /\ calls[2].op \in {"process_order_payment", "mark_order_completed"}
     /\ \A i \in 1..MaxCalls : ~calls[i].fault /\ calls[i].args.order_id = 1)
    => /\ ~(calls[1].outcome = "ok" /\ calls[2].outcome = "ok")
       /\ ~(/\ orders[1].status = "COMPLETED"
            /\ \E p \in ProductIds : products[p].stock > Started.products[p].stock)
       /\ ~(/\ orders[1].status = "CANCELLED"
            /\ \E i \in 1..Len(payments) :
                  payments[i].order_id = 1 /\ payments[i].status = "PAID")

\* C30: under interleaved process_payment, refund_payment and cancel_order
\* calls, a payment that is REFUNDED stays REFUNDED.
C30_RefundedIsTerminal ==
    [][(\A i \in 1..MaxCalls :
            calls[i].op \in {"process_payment", "refund_payment", "cancel_order"})
       => \A j \in 1..Len(payments) :
             payments[j].status = "REFUNDED" => payments'[j].status = "REFUNDED"]_vars

\* C31: a create_order that fails after validation because a stock decrement
\* raises, the order insert returns no row or the order insert raises leaves no
\* product's stock above its value before the call.
C31_FailedCreateNeverRaisesStock ==
    (/\ last.op = "create_order" /\ ~C3_Invalid
     /\ last.outcome = "OrderCreationFailed"
     /\ (last.fault.stock # 0 \/ last.fault.write \in {"none", "raise"}))
    => \A p \in ProductIds : products[p].stock <= last.pre.products[p].stock

\* The quantity of product p that rows 1..k hold for the orders of O that are
\* PLACED or COMPLETED.
RECURSIVE committed_qty(_, _, _, _)
committed_qty(O, rows, p, k) ==
    IF k = 0 THEN 0
    ELSE committed_qty(O, rows, p, k - 1)
         + (IF /\ rows[k].product_id = p
               /\ O[rows[k].order_id].status \in {"PLACED", "COMPLETED"}
            THEN rows[k].quantity ELSE 0)

\* The stock of product p on the shelf plus the stock its open orders hold.
stock_and_committed(P, O, rows, p) == P[p].stock + committed_qty(O, rows, p, Len(rows))

\* No order names a product in two of its rows.
NoRepeatedProduct(rows) ==
    \A i, j \in 1..Len(rows) :
       (i # j /\ rows[i].order_id = rows[j].order_id)
       => rows[i].product_id # rows[j].product_id

\* C32: with calls run one at a time, no store call having failed and no order
\* naming a product twice, no step changes, for any product, its stock plus
\* the quantities its PLACED and COMPLETED orders hold of it; before the first
\* order that sum is the initial stock, so it is the initial stock in every
\* such state.
C32_StockIsConserved ==
    [][(nfaults' = 0 /\ NoRepeatedProduct(order_items'))
       => \A p \in ProductIds :
             stock_and_committed(products', orders', order_items', p)
             = stock_and_committed(products, orders, order_items, p)]_vars

\* C32 witness: an order of two products, two units of the first, placed and
\* then cancelled with no store failure so far.
C32_Witness ==
    /\ nfaults = 0
    /\ last.op = "cancel_order" /\ last.outcome = "ok"
    /\ Len(orders) = 1 /\ orders[1].status = "CANCELLED"
    /\ Len(order_items) = 2
    /\ order_items[1].product_id # order_items[2].product_id
    /\ order_items[1].quantity = 2

\* The calls of payment_service and the completion calls of order_service.
PaymentCalls == {"process_payment", "process_payment_by_order",
                 "process_order_payment", "mark_order_completed",
                 "refund_payment", "refund_payment_by_order"}

\* C33: process_payment, process_payment_by_order, process_order_payment,
\* mark_order_completed, refund_payment and refund_payment_by_order leave every
\* product's stock as it was before the call, whether they succeed or fail and
\* whatever store call fails, the revert of process_payment included.
C33_PaymentCallsLeaveStock ==
    last.op \in PaymentCalls
    => \A p \in ProductIds : products[p].stock = last.pre.products[p].stock

\* C33 witness: a process_payment whose order update returns no row and whose
\* revert puts the payment back to PENDING, the order having reduced the stock.
C33_Witness ==
    /\ last.op = "process_payment"
    /\ last.outcome = "PaymentProcessingFailed"
    /\ last.fault.write = "none" /\ last.fault.revert = "ok"
    /\ payments[last.args.payment_id].status = "PENDING"
    /\ last.pre.payments[last.args.payment_id].status = "PENDING"
    /\ Len(RowsOf(payments[last.args.payment_id].order_id)) > 0

====
